---- MODULE Spec2Model ----
(***************************************************************************)
(* Model of Code/Wrapper.py: the FilterBank class (Gaussian evaluator,     *)
(* derivative-of-Gaussian evaluator, the DoG, Leung-Malik and Gabor bank   *)
(* builders) and the montage loops of main.                                *)
(*                                                                         *)
(* Numbers.  Every scale of the program is c * sqrt(2)^r with c a positive *)
(* integer and r in {0, 1}; such a number is the record [c, r].  The       *)
(* formulas use scales only through sigma**2, sigma**4 and sigma_x*sigma_y,*)
(* which are integers, so every coefficient is an exact rational <<n, d>>  *)
(* in lowest terms.  exp, cos and pi are not evaluated: a Gaussian value   *)
(* is the pair (argument of exp, denominator / (2 pi)).                    *)
(*                                                                         *)
(* Arrays.  numpy evaluates the formulas elementwise over the meshgrid, so *)
(* an ndarray is the record of the grid and of the locals the formula      *)
(* reads; ArrayAt gives its element at an index.  The cv2 calls            *)
(* (filter2D, getRotationMatrix2D, warpAffine) are library code: their     *)
(* results are the terms of their arguments.                               *)
(***************************************************************************)
EXTENDS Integers, Sequences, FiniteSets, TLC

VARIABLES
    heap,        \* the objects created so far, by object id (1..Len(heap))
    calls,       \* the FilterBank method calls made so far: [fn, args, ret]
    self_dict,   \* the attributes of the FilterBank instance (self.__dict__)
    pc,          \* main: the statement main is at
    bank,        \* main: the bank being displayed (DOG_filters, LMs_filter_bank, gabor_filters)
    ax,          \* main: the cells of the current figure that show an image
    i, j,        \* main: the loop counters
    saved        \* main: the figures saved so far, [name, cells]

vars == <<heap, calls, self_dict, pc, bank, ax, i, j, saved>>
apiVars == <<heap, calls, self_dict>>
mainVars == <<pc, bank, ax, i, j, saved>>

(********************************* bounds **********************************)
\* the largest number of method calls made on one instance
MaxCalls == 2
\* grids of the evaluator calls have size 2*b + 1 for b in 0..MaxGridBound
MaxGridBound == 3
\* elongation ratios of the evaluator calls are 1..MaxElongation
MaxElongation == 3
\* orientation counts of the gabor calls are 0..MaxOrientation, and 8
MaxOrientation == 3

(******************************** numbers **********************************)
RECURSIVE GCD(_, _)
GCD(a, b) == IF b = 0 THEN a ELSE GCD(b, a % b)

Abs(n) == IF n < 0 THEN -n ELSE n

\* the quotient n / d (d # 0) in lowest terms, with a positive denominator
Rat(n, d) ==
    LET g == GCD(Abs(n), Abs(d))
        s == IF d < 0 THEN -1 ELSE 1
    IN  <<(s * n) \div g, (s * d) \div g>>

RatAdd(p, q) == Rat(p[1] * q[2] + q[1] * p[2], p[2] * q[2])

\* c * sqrt(2)^r
Surd(c, r) == [c |-> c, r |-> r]
Num(n) == Surd(n, 0)
Sqrt2 == Surd(1, 1)

\* n * s for an integer n (elongation*sigma_x, 2*sqrt(2), sigma*3)
SurdScale(n, s) == Surd(n * s.c, s.r)

\* s * t
SurdMul(s, t) ==
    Surd(s.c * t.c * (IF s.r = 1 /\ t.r = 1 THEN 2 ELSE 1), (s.r + t.r) % 2)

\* s**2, an integer
Sq(s) == s.c * s.c * (IF s.r = 1 THEN 2 ELSE 1)

(***************************** Python values *******************************)
PyStr(s) == [t |-> "str", v |-> s]
PyInt(n) == [t |-> "int", v |-> n]
PyNone == [t |-> "NoneType", v |-> 0]
Ref(id) == [t |-> "ref", v |-> id]

\* a == b for the values above: values of different types are never equal
PyEq(a, b) == a.t = b.t /\ a.v = b.v

\* the outcome of a call
Return(value) == [kind |-> "return", value |-> value]

(********************************* grids ***********************************)
\* np.linspace(start, stop, num) where (stop - start) is a multiple of num - 1
linspace(start, stop, num) ==
    [k \in 1..num |->
        IF num = 1 THEN start ELSE start + ((k - 1) * (stop - start)) \div (num - 1)]

\* np.meshgrid(xs, ys): x[i, j] = xs[j] and y[i, j] = ys[i]
meshgrid(xs, ys) == [xs |-> xs, ys |-> ys]

GridX(grid, r, c) == grid.xs[c]
GridY(grid, r, c) == grid.ys[r]
GridRows(grid) == Len(grid.ys)
GridCols(grid) == Len(grid.xs)

\* the grid every bank builder makes: bounds = size // 2,
\* spread = linspace(-bounds, bounds, size), meshgrid(spread, spread)
BuilderGrid(size) ==
    LET bounds == size \div 2
        spread == linspace(-bounds, bounds, size)
    IN  meshgrid(spread, spread)

(**************************** gaussian_filter ******************************)
\* x in place of x**2 in the exponent
gaussian_value_unsquared(x, y, sigma_x, sigma_y) ==
    [exp_neg |-> RatAdd(Rat(x, 2 * Sq(sigma_x)), Rat(y * y, 2 * Sq(sigma_y))),
     two_pi_times |-> SurdMul(sigma_x, sigma_y)]

\* numerator / denominator at one point: exp(-arg) / (2 pi sigma_x sigma_y)
gaussian_value(x, y, sigma_x, sigma_y) ==
    [exp_neg |-> RatAdd(Rat(x * x, 2 * Sq(sigma_x)), Rat(y * y, 2 * Sq(sigma_y))),
     two_pi_times |-> SurdMul(sigma_x, sigma_y)]

gaussian_filter(grid, sigma, elongation, elongate) ==
    LET sigma_x == sigma
        sigma_y == IF PyEq(elongate, PyStr("yes"))
                   THEN SurdScale(elongation, sigma_x)
                   ELSE sigma_x
    IN  [op |-> "gaussian", grid |-> grid,
         sigma_x |-> sigma_x, sigma_y |-> sigma_y, sigma |-> sigma]

\* the defaults of gaussian_filter: elongation=1, elongate='yes'
DefaultElongation == 1
DefaultElongate == PyStr("yes")

(*********************** derivative_gaussian_filter ************************)
SupportedOrders == {<<1, 0>>, <<0, 1>>, <<2, 0>>, <<0, 2>>, <<2, 2>>}

\* the branch taken for an order, "" when no branch is
OrderBranch(order) ==
    CASE order = <<1, 0>> -> "first_derivate_x"
      [] order = <<0, 1>> -> "first_derivate_y"
      [] order = <<2, 0>> -> "second_derivative_x"
      [] order = <<0, 2>> -> "second_derivative_y"
      [] order = <<2, 2>> -> "laplacian"
      [] OTHER -> ""

\* the outcome of derivative_gaussian_filter: the array of the branch taken,
\* None when the if/elif chain falls through
derivative_gaussian_filter(grid, sigma, elongation, order, elongate) ==
    LET gaussian == gaussian_filter(grid, sigma, elongation, elongate)
        sigma_x == sigma
        sigma_y == SurdScale(elongation, sigma_x)
    IN  IF OrderBranch(order) = ""
        THEN Return(PyNone)
        ELSE Return([op |-> OrderBranch(order), grid |-> grid,
                     sigma_x |-> sigma_x, sigma_y |-> sigma_y, sigma |-> sigma,
                     gaussian |-> gaussian])

\* the factor that multiplies the Gaussian at one point
derivative_factor(branch, x, y, sigma_x, sigma_y, sigma) ==
    CASE branch = "first_derivate_x" -> Rat(-x, Sq(sigma_x))
      [] branch = "first_derivate_y" -> Rat(-y, Sq(sigma_y))
      [] branch = "second_derivative_x" ->
            Rat(x * x - Sq(sigma_x), Sq(sigma_x) * Sq(sigma_x))
      [] branch = "second_derivative_y" ->
            Rat(y * y - Sq(sigma_y), Sq(sigma_y) * Sq(sigma_y))
      [] branch = "laplacian" ->
            Rat(x * x + y * y - 2 * Sq(sigma), Sq(sigma) * Sq(sigma))

\* the element at row r, column c (1-based) of an evaluator's array
ArrayAt(a, r, c) ==
    LET x == GridX(a.grid, r, c)
        y == GridY(a.grid, r, c)
    IN  IF a.op = "gaussian"
        THEN gaussian_value(x, y, a.sigma_x, a.sigma_y)
        ELSE [factor |-> derivative_factor(a.op, x, y, a.sigma_x, a.sigma_y, a.sigma),
              gaussian |-> gaussian_value(x, y, a.gaussian.sigma_x, a.gaussian.sigma_y)]

(******************************* cv2 calls *********************************)
filter2D(src, ddepth, kernel) ==
    [op |-> "filter2D", src |-> src, ddepth |-> ddepth, kernel |-> kernel]

getRotationMatrix2D(center, angle, scale) ==
    [center |-> center, angle |-> angle, scale |-> scale]

warpAffine(src, M, dsize) ==
    [op |-> "warpAffine", src |-> src, M |-> M, dsize |-> dsize]

(***************************** lists on the heap ***************************)
\* a list kept between calls: the newest list object is used again
NewList_shared(h) ==
    IF \E r \in 1..Len(h) : h[r].op = "list"
    THEN [heap |-> h,
          ref |-> CHOOSE r \in 1..Len(h) :
                      /\ h[r].op = "list"
                      /\ \A q \in (r + 1)..Len(h) : h[q].op # "list"]
    ELSE [heap |-> Append(h, [op |-> "list", items |-> <<>>]), ref |-> Len(h) + 1]

\* a list display [] makes a new list object
NewList(h) == [heap |-> Append(h, [op |-> "list", items |-> <<>>]), ref |-> Len(h) + 1]

\* list.append of each element of items, in order, to the list object ref
ListExtend(h, ref, items) ==
    [h EXCEPT ![ref] = [op |-> "list", items |-> h[ref].items \o items]]

\* a new ndarray object
NewArray(h, a) == [heap |-> Append(h, a), ref |-> Len(h) + 1]

(************************ the rotation loops (117-121) *********************)
\* the angles spread over 0..360 with both ends included
rotation_angle_inclusive(k, count) == Rat(k * 360, count - 1)

\* angle = i * 360 / angles, in degrees
rotation_angle(k, count) == Rat(k * 360, count)

\* for i in range(count): append the rotation of src by i * 360 / count
RECURSIVE rotations(_, _, _, _, _)
rotations(src, size, count, k, filters) ==
    IF k >= count
    THEN filters
    ELSE LET angle == rotation_angle(k, count)
             rotation_matrix ==
                 getRotationMatrix2D(<<size \div 2, size \div 2>>, angle, 1)
         IN  rotations(src, size, count, k + 1,
                       Append(filters, warpAffine(src, rotation_matrix, <<size, size>>)))

(***************************** dog_filter_bank *****************************)
dog_scales == <<Num(1), Sqrt2>>
sobel_x == <<<<1, 0, -1>>, <<2, 0, -2>>, <<1, 0, -1>>>>
DogSize == 7
DogAngles == 16

\* for sigma in scales (from the s-th on): the 16 rotations of dog_x
RECURSIVE dog_scale_loop(_, _, _)
dog_scale_loop(grid, s, filters) ==
    IF s > Len(dog_scales)
    THEN filters
    ELSE LET sigma == dog_scales[s]
             gaussian == gaussian_filter(grid, sigma, DefaultElongation, DefaultElongate)
             dog_x == filter2D(gaussian, -1, sobel_x)
         IN  dog_scale_loop(grid, s + 1, rotations(dog_x, DogSize, DogAngles, 0, filters))

dog_filter_bank(h) ==
    LET grid == BuilderGrid(DogSize)
        derivative_gaussian_filters == NewList(h)
    IN  [heap |-> ListExtend(derivative_gaussian_filters.heap,
                             derivative_gaussian_filters.ref,
                             dog_scale_loop(grid, 1, <<>>)),
         outcome |-> Return(Ref(derivative_gaussian_filters.ref))]

(************************************ LM ***********************************)
LMSize == 49
LMElongation == 3
LMOrientations == 6

\* the small set unless type is 'large'
LM_scales_default_small(type) ==
    IF PyEq(type, PyStr("large"))
    THEN <<Sqrt2, Num(2), SurdScale(2, Sqrt2), Num(4)>>
    ELSE <<Num(1), Sqrt2, Num(2), SurdScale(2, Sqrt2)>>

\* the same set in both branches
LM_scales_same(type) ==
    IF PyEq(type, PyStr("small"))
    THEN <<Num(1), Sqrt2, Num(2), SurdScale(2, Sqrt2)>>
    ELSE <<Num(1), Sqrt2, Num(2), SurdScale(2, Sqrt2)>>

LM_scales(type) ==
    IF PyEq(type, PyStr("small"))
    THEN <<Num(1), Sqrt2, Num(2), SurdScale(2, Sqrt2)>>
    ELSE <<Sqrt2, Num(2), SurdScale(2, Sqrt2), Num(4)>>

\* the derivative kernels at every scale of the set
LM_derivative_scales_all(scales) == scales

\* scales[:3]
LM_derivative_scales(scales) == SubSeq(scales, 1, 3)

\* for sigma in scales[:3] (from the s-th on): 6 rotations of the first
\* x-derivative, then 6 rotations of the second x-derivative
RECURSIVE LM_derivative_loop(_, _, _, _)
LM_derivative_loop(grid, scales, s, filters) ==
    IF s > Len(scales)
    THEN filters
    ELSE LET sigma == scales[s]
             first_derivative_gaussian ==
                 derivative_gaussian_filter(grid, sigma, LMElongation, <<1, 0>>,
                                            PyStr("yes")).value
             second_derivative_gaussian ==
                 derivative_gaussian_filter(grid, sigma, LMElongation, <<2, 0>>,
                                            PyStr("yes")).value
             with_first == rotations(first_derivative_gaussian, LMSize,
                                     LMOrientations, 0, filters)
             with_second == rotations(second_derivative_gaussian, LMSize,
                                      LMOrientations, 0, with_first)
         IN  LM_derivative_loop(grid, scales, s + 1, with_second)

\* for sigma in scales: the Laplacian of Gaussian at factor * sigma
LM_laplacians(grid, scales, factor) ==
    [s \in 1..Len(scales) |->
        derivative_gaussian_filter(grid, SurdScale(factor, scales[s]), LMElongation,
                                   <<2, 2>>, PyStr("no")).value]

\* for sigma in scales: the Gaussian
LM_gaussians(grid, scales) ==
    [s \in 1..Len(scales) |->
        gaussian_filter(grid, scales[s], LMElongation, PyStr("no"))]

LM(h, type) ==
    LET grid == BuilderGrid(LMSize)
        scales == LM_scales(type)
        LM_filters == NewList(h)
        items == LM_derivative_loop(grid, LM_derivative_scales(scales), 1, <<>>)
                 \o LM_laplacians(grid, scales, 1)
                 \o LM_laplacians(grid, scales, 3)
                 \o LM_gaussians(grid, scales)
    IN  [heap |-> ListExtend(LM_filters.heap, LM_filters.ref, items),
         outcome |-> Return(Ref(LM_filters.ref))]

(*********************************** gabor *********************************)
GaborSize == 49
nlambdas == <<2, 5, 10, 15, 20>>

\* the angles counted from 1
gabor_theta_one_based(k, orientation) == Rat(k + 1, orientation)

\* theta = i * pi / orientation, as the multiple of pi
gabor_theta(k, orientation) == Rat(k, orientation)

\* for i in range(orientation) (from k on): the kernel of lambda_ and theta
RECURSIVE gabor_orientation_loop(_, _, _, _, _, _, _, _)
gabor_orientation_loop(grid, lambda_, orientation, sigma, gamma, psi, k, filters) ==
    IF k >= orientation
    THEN filters
    ELSE LET theta == gabor_theta(k, orientation)
             gb == [op |-> "gabor", grid |-> grid, lambda_ |-> lambda_,
                    theta |-> theta, sigma |-> sigma, gamma |-> gamma, psi |-> psi]
         IN  gabor_orientation_loop(grid, lambda_, orientation, sigma, gamma, psi,
                                    k + 1, Append(filters, gb))

\* for lambda_ in nlambdas (from the w-th on)
RECURSIVE gabor_lambda_loop(_, _, _, _, _, _, _)
gabor_lambda_loop(grid, orientation, sigma, gamma, psi, w, filters) ==
    IF w > Len(nlambdas)
    THEN filters
    ELSE gabor_lambda_loop(grid, orientation, sigma, gamma, psi, w + 1,
             gabor_orientation_loop(grid, nlambdas[w], orientation, sigma, gamma,
                                    psi, 0, filters))

gabor(h, orientation, sigma, gamma, psi) ==
    LET grid == BuilderGrid(GaborSize)
        gabor_filters == NewList(h)
    IN  [heap |-> ListExtend(gabor_filters.heap, gabor_filters.ref,
                             gabor_lambda_loop(grid, orientation, sigma, gamma, psi,
                                               1, <<>>)),
         outcome |-> Return(Ref(gabor_filters.ref))]

(****************************** the instance *******************************)
\* FilterBank.__init__: pass, so the instance has no attribute
FilterBank_init == [name \in {} |-> PyNone]

Init ==
    /\ heap = <<>>
    /\ calls = <<>>
    /\ self_dict = FilterBank_init
    /\ pc = "start"
    /\ bank = PyNone
    /\ ax = <<>>
    /\ i = 0
    /\ j = 0
    /\ saved = <<>>

\* a method call on the instance: the heap after it and its record
MethodCall(fn, args, result) ==
    /\ heap' = result.heap
    /\ calls' = Append(calls, [fn |-> fn, args |-> args, outcome |-> result.outcome])
    /\ UNCHANGED self_dict

\* an evaluator's outcome put on the heap: an ndarray is a new object, None is not
Evaluated(h, outcome) ==
    IF outcome.kind = "return" /\ outcome.value # PyNone
    THEN [heap |-> NewArray(h, outcome.value).heap,
          outcome |-> Return(Ref(NewArray(h, outcome.value).ref))]
    ELSE [heap |-> h, outcome |-> outcome]

(************************* the argument sets *******************************)
\* the scales the builders pass: the LM sets and three times them
Sigmas ==
    {Num(1), Sqrt2, Num(2), SurdScale(2, Sqrt2), Num(4),
     Num(3), SurdScale(3, Sqrt2), Num(6), SurdScale(6, Sqrt2), Num(12)}
\* the builders' grids of size 1, 3, .., 2 * MaxGridBound + 1, and the LM grid
Grids == {BuilderGrid(2 * b + 1) : b \in 0..MaxGridBound} \cup {BuilderGrid(LMSize)}
Elongations == 1..MaxElongation
ElongateFlags == {PyStr("yes"), PyStr("no")}
Orders == SupportedOrders \cup {<<1, 1>>, <<0, 0>>}

\* the smaller sets of the call sequences
SeqSigmas == {Num(1), Sqrt2}
SeqGrids == {BuilderGrid(3)}
SeqElongations == {MaxElongation}
SeqOrders == {<<1, 0>>, <<2, 2>>, <<1, 1>>}
LMTypes == <<PyStr("small"), PyStr("large"), PyStr("Small"), PyStr("smal"),
             PyStr(""), PyInt(0), PyNone>>
GaborOrientations == (0..MaxOrientation) \cup {8}
GaborSigmas == {8}
GaborGammas == {Rat(65, 100), Rat(1, 1)}
GaborPsis == {0}

(***************************** the method calls ****************************)
CallGaussian(limit, G, S, E) ==
    /\ Len(calls) < limit
    /\ \E grid \in G, sigma \in S, elongation \in E, elongate \in ElongateFlags :
          MethodCall("gaussian_filter", <<grid, sigma, elongation, elongate>>,
                     Evaluated(heap, Return(gaussian_filter(grid, sigma, elongation,
                                                            elongate))))
    /\ UNCHANGED mainVars

CallDerivative(limit, G, S, E, O) ==
    /\ Len(calls) < limit
    /\ \E grid \in G, sigma \in S, elongation \in E, order \in O,
          elongate \in ElongateFlags :
          MethodCall("derivative_gaussian_filter",
                     <<grid, sigma, elongation, order, elongate>>,
                     Evaluated(heap, derivative_gaussian_filter(grid, sigma, elongation,
                                                                order, elongate)))
    /\ UNCHANGED mainVars

CallDog ==
    /\ Len(calls) < MaxCalls
    /\ MethodCall("dog_filter_bank", <<>>, dog_filter_bank(heap))
    /\ UNCHANGED mainVars

CallLM ==
    /\ Len(calls) < MaxCalls
    /\ \E t \in 1..Len(LMTypes) :
          MethodCall("LM", <<LMTypes[t]>>, LM(heap, LMTypes[t]))
    /\ UNCHANGED mainVars

CallGabor ==
    /\ Len(calls) < MaxCalls
    /\ \E orientation \in GaborOrientations, sigma \in GaborSigmas,
          gamma \in GaborGammas, psi \in GaborPsis :
          MethodCall("gabor", <<orientation, sigma, gamma, psi>>,
                     gabor(heap, orientation, sigma, gamma, psi))
    /\ UNCHANGED mainVars

\* any sequence of at most MaxCalls calls on one instance
Next ==
    \/ CallGaussian(MaxCalls, SeqGrids, SeqSigmas, SeqElongations)
    \/ CallDerivative(MaxCalls, SeqGrids, SeqSigmas, SeqElongations, SeqOrders)
    \/ CallDog
    \/ CallLM
    \/ CallGabor

Spec == Init /\ [][Next]_vars

\* one evaluator call, its arguments drawn from the whole argument sets
NextFn ==
    \/ CallGaussian(1, Grids, Sigmas, Elongations)
    \/ CallDerivative(1, Grids, Sigmas, Elongations, Orders)

SpecFn == Init /\ [][NextFn]_vars

(*********************************** main **********************************)
\* the list object bank refers to
BankItems == heap[bank.v].items

\* ax[row, col].imshow(filters[index], cmap='gray'); ax[row, col].axis('off')
Shown(cells, row, col, index) ==
    [c \in DOMAIN cells \cup {<<row, col>>} |->
        IF c = <<row, col>>
        THEN [index |-> index, img |-> BankItems[index + 1], axis |-> "off"]
        ELSE cells[c]]

\* the index of the filter that the DoG montage shows in cell (row, col)
DoGCellIndex(row, col) == row * 4 + col

DoGRows == 2
DoGCols == 16
LMCols == 12
GaborCols == 8

\* filter_bank = FilterBank(); DOG_filters = filter_bank.dog_filter_bank();
\* fig, ax = plt.subplots(2, 16)
MainDoGBank ==
    /\ pc = "start"
    /\ MethodCall("dog_filter_bank", <<>>, dog_filter_bank(heap))
    /\ bank' = dog_filter_bank(heap).outcome.value
    /\ ax' = <<>>
    /\ i' = 0
    /\ j' = 0
    /\ pc' = "DoG"
    /\ UNCHANGED saved

\* one pass of the body of: for i in range(2): for j in range(16)
MainDoGShow ==
    /\ pc = "DoG"
    /\ i < DoGRows
    /\ ax' = Shown(ax, i, j, DoGCellIndex(i, j))
    /\ IF j + 1 < DoGCols
       THEN i' = i /\ j' = j + 1
       ELSE i' = i + 1 /\ j' = 0
    /\ UNCHANGED <<apiVars, pc, bank, saved>>

\* plt.savefig(name); plt.show(); plt.close()
Savefig(name) == saved' = Append(saved, [name |-> name, cells |-> ax])

MainDoGSave ==
    /\ pc = "DoG"
    /\ i = DoGRows
    /\ Savefig("DoG1.png")
    /\ pc' = "LMs_call"
    /\ UNCHANGED <<apiVars, bank, ax, i, j>>

\* LMs_filter_bank = filter_bank.LM(type); fig, axs = plt.subplots(4, 12)
MainLMBank(at, type, to) ==
    /\ pc = at
    /\ MethodCall("LM", <<type>>, LM(heap, type))
    /\ bank' = LM(heap, type).outcome.value
    /\ ax' = <<>>
    /\ i' = 0
    /\ pc' = to
    /\ UNCHANGED <<j, saved>>

\* gabor_filters = filter_bank.gabor(orientation = 8, sigma = 8, gamma = 0.65, psi = 0);
\* fig, axs = plt.subplots(5, 8)
MainGaborBank ==
    /\ pc = "Gabor_call"
    /\ MethodCall("gabor", <<8, 8, Rat(65, 100), 0>>, gabor(heap, 8, 8, Rat(65, 100), 0))
    /\ bank' = gabor(heap, 8, 8, Rat(65, 100), 0).outcome.value
    /\ ax' = <<>>
    /\ i' = 0
    /\ pc' = "Gabor"
    /\ UNCHANGED <<j, saved>>

\* one pass of the body of: for i, filter in enumerate(bank): axs[i//cols, i%cols]
MainEnumShow(at, cols) ==
    /\ pc = at
    /\ i < Len(BankItems)
    /\ ax' = Shown(ax, i \div cols, i % cols, i)
    /\ i' = i + 1
    /\ UNCHANGED <<apiVars, pc, bank, j, saved>>

MainEnumSave(at, name, to) ==
    /\ pc = at
    /\ i = Len(BankItems)
    /\ Savefig(name)
    /\ pc' = to
    /\ UNCHANGED <<apiVars, bank, ax, i, j>>

NextMain ==
    \/ MainDoGBank
    \/ MainDoGShow
    \/ MainDoGSave
    \/ MainLMBank("LMs_call", PyStr("small"), "LMs")
    \/ MainEnumShow("LMs", LMCols)
    \/ MainEnumSave("LMs", "LMs.png", "LMl_call")
    \/ MainLMBank("LMl_call", PyStr("large"), "LMl")
    \/ MainEnumShow("LMl", LMCols)
    \/ MainEnumSave("LMl", "LMl.png", "Gabor_call")
    \/ MainGaborBank
    \/ MainEnumShow("Gabor", GaborCols)
    \/ MainEnumSave("Gabor", "Gabor.png", "done")

SpecMain == Init /\ [][NextMain]_vars

(********************************* claims **********************************)
CallIds == 1..Len(calls)

\* the object a returned reference names
Returned(k) == heap[calls[k].outcome.value.v]

\* what builds a kernel of a bank
KernelKind(f) == IF f.op = "warpAffine" THEN f.src.op ELSE f.op
KernelScale(f) == IF f.op = "warpAffine" THEN f.src.sigma ELSE f.sigma
KernelAngle(f) == IF f.op = "warpAffine" THEN f.M.angle ELSE <<0, 1>>

\* the rational p is n / d
RatIs(p, n, d) == p[1] * d = n * p[2]

IsSmall(type) == type.t = "str" /\ type.v = "small"

\* the tail of an LM bank: 36..39 LoG, 40..43 LoG at 3 times those scales,
\* 44..47 plain Gaussians at those scales
LMTailAsClaimed(b) ==
    \A m \in 0..3 :
        /\ KernelKind(b[37 + m]) = "laplacian"
        /\ b[37 + m].op = "laplacian"
        /\ KernelKind(b[41 + m]) = "laplacian"
        /\ b[41 + m].sigma = SurdScale(3, b[37 + m].sigma)
        /\ b[45 + m].op = "gaussian"
        /\ b[45 + m].sigma = b[37 + m].sigma

\* C1 as stated: every LM bank has 48 kernels, the first-x-derivative kernels
\* at indices 0..17 (3 scales x 6 orientations), the second-x-derivative
\* kernels at 18..35, then 4 LoG, 4 LoG at 3x the scales and 4 Gaussians.
C1_Original ==
    \A k \in CallIds : calls[k].fn = "LM" =>
        LET b == Returned(k).items
        IN  /\ Len(b) = 48
            /\ \A n \in 0..17 :
                  /\ KernelKind(b[n + 1]) = "first_derivate_x"
                  /\ KernelScale(b[n + 1]) = b[37 + (n \div 6)].sigma
                  /\ RatIs(KernelAngle(b[n + 1]), (n % 6) * 360, 6)
            /\ \A n \in 18..35 :
                  /\ KernelKind(b[n + 1]) = "second_derivative_x"
                  /\ KernelScale(b[n + 1]) = b[37 + ((n - 18) \div 6)].sigma
                  /\ RatIs(KernelAngle(b[n + 1]), (n % 6) * 360, 6)
            /\ LMTailAsClaimed(b)

\* C1 amended: every LM bank has 48 kernels; indices 0..35 are three groups of
\* 12, one per scale of the first three, and the group of scale s (indices
\* 12s..12s+11) holds the 6 rotations of the first x-derivative and then the 6
\* rotations of the second x-derivative; 36..39 are the LoG kernels, 40..43 the
\* LoG kernels at 3x the scales and 44..47 the Gaussians.
C1_LMLayout ==
    \A k \in CallIds : calls[k].fn = "LM" =>
        LET b == Returned(k).items
        IN  /\ Len(b) = 48
            /\ \A n \in 0..35 :
                  /\ KernelKind(b[n + 1]) =
                        (IF n % 12 < 6 THEN "first_derivate_x" ELSE "second_derivative_x")
                  /\ b[n + 1].op = "warpAffine"
                  /\ KernelScale(b[n + 1]) = b[37 + (n \div 12)].sigma
                  /\ RatIs(KernelAngle(b[n + 1]), (n % 6) * 360, 6)
            /\ LMTailAsClaimed(b)

C1_Witness ==
    \E k \in CallIds :
        /\ calls[k].fn = "LM"
        /\ calls[k].outcome.kind = "return"
        /\ KernelKind(Returned(k).items[7]) = "second_derivative_x"

\* C2 as stated: derivative_gaussian_filter with an order outside the five
\* supported ones ends in an InvalidArgument error, never in a normal return.
C2_UnsupportedOrderRaises ==
    \A k \in CallIds :
        (/\ calls[k].fn = "derivative_gaussian_filter"
         /\ calls[k].args[4] \notin SupportedOrders)
        => /\ calls[k].outcome.kind = "raise"
           /\ calls[k].outcome.value.v = "InvalidArgument"

\* C3 as stated: for the orders (0,1) and (0,2) the sigma_y of the multiplying
\* factor is the sigma_y of the base Gaussian: r*sigma when elongation is
\* enabled, sigma when it is not.
C3_SameSigmaY ==
    \A k \in CallIds :
        (/\ calls[k].fn = "derivative_gaussian_filter"
         /\ calls[k].args[4] \in {<<0, 1>>, <<0, 2>>})
        => LET a == Returned(k)
               sigma == calls[k].args[2]
               r == calls[k].args[3]
               enabled == calls[k].args[5].v = "yes"
           IN  /\ a.sigma_y = a.gaussian.sigma_y
               /\ a.sigma_y = (IF enabled THEN [c |-> r * sigma.c, r |-> sigma.r]
                               ELSE sigma)

\* C4: every DoG bank has 32 kernels, each 7x7; the kernel at index 16*s + n
\* is built from scale s of {1, sqrt 2} and rotated by n*360/16 degrees, so the
\* 16 angles of a scale are distinct, evenly spaced, start at 0 and stay below 360.
C4_DoGLayout ==
    \A k \in CallIds : calls[k].fn = "dog_filter_bank" =>
        LET b == Returned(k).items
            angle(s, n) == b[16 * s + n + 1].M.angle
        IN  /\ Len(b) = 32
            /\ \A s \in 0..1, n \in 0..15 :
                  LET f == b[16 * s + n + 1]
                  IN  /\ f.op = "warpAffine"
                      /\ f.dsize = <<7, 7>>
                      /\ f.src.op = "filter2D"
                      /\ GridRows(f.src.src.grid) = 7
                      /\ GridCols(f.src.src.grid) = 7
                      /\ f.src.src.sigma = (IF s = 0 THEN [c |-> 1, r |-> 0]
                                            ELSE [c |-> 1, r |-> 1])
                      /\ RatIs(f.M.angle, n * 360, 16)
                      /\ f.M.angle[1] >= 0
                      /\ f.M.angle[1] < 360 * f.M.angle[2]
            /\ \A s \in 0..1 : angle(s, 0)[1] = 0
            /\ \A s \in 0..1, n \in 0..15, m \in 0..15 :
                  n # m => angle(s, n) # angle(s, m)
            /\ \A s \in 0..1, n \in 0..14 :
                  RatAdd(angle(s, n), <<45, 2>>) = angle(s, n + 1)

C4_Witness ==
    \E k \in CallIds :
        /\ calls[k].fn = "dog_filter_bank"
        /\ Len(Returned(k).items) = 32
        /\ Returned(k).items[32].M.angle = <<675, 2>>

\* C5: for every orientation count n >= 0, gabor returns 5*n kernels; the
\* kernel at index n*w + m uses wavelength number w of {2, 5, 10, 15, 20} and
\* theta = m*pi/n, which lies in [0, pi); with n = 8 the bank has 40 kernels.
C5_GaborLayout ==
    \A k \in CallIds : calls[k].fn = "gabor" =>
        LET n == calls[k].args[1]
            b == Returned(k).items
        IN  /\ n >= 0
            /\ Len(b) = 5 * n
            /\ (n = 8 => Len(b) = 40)
            /\ \A w \in 0..4, m \in 0..(n - 1) :
                  LET f == b[n * w + m + 1]
                  IN  /\ f.op = "gabor"
                      /\ f.lambda_ = <<2, 5, 10, 15, 20>>[w + 1]
                      /\ RatIs(f.theta, m, n)
                      /\ f.theta[1] >= 0
                      /\ f.theta[1] < f.theta[2]

C5_Witness ==
    \E k \in CallIds :
        /\ calls[k].fn = "gabor"
        /\ calls[k].args[1] = 8
        /\ Len(Returned(k).items) = 40
        /\ Returned(k).items[40].lambda_ = 20

\* C6: LM(type) uses the small scale set {1, sqrt 2, 2, 2 sqrt 2} exactly when
\* type equals 'small'; for every other type value it uses the large set
\* {sqrt 2, 2, 2 sqrt 2, 4} and returns normally a full bank.
C6_LMTypeSelectsScales ==
    \A k \in CallIds : calls[k].fn = "LM" =>
        LET type == calls[k].args[1]
            b == Returned(k).items
            used == [m \in 1..4 |-> b[36 + m].sigma]
            small == <<[c |-> 1, r |-> 0], [c |-> 1, r |-> 1],
                       [c |-> 2, r |-> 0], [c |-> 2, r |-> 1]>>
            large == <<[c |-> 1, r |-> 1], [c |-> 2, r |-> 0],
                       [c |-> 2, r |-> 1], [c |-> 4, r |-> 0]>>
        IN  /\ calls[k].outcome.kind = "return"
            /\ calls[k].outcome.value.t = "ref"
            /\ Len(b) = 48
            /\ (used = small) <=> IsSmall(type)
            /\ (~IsSmall(type)) => used = large
            /\ \A n \in 0..35 : \E m \in 1..3 : KernelScale(b[n + 1]) = used[m]
            /\ \A m \in 1..4 : b[44 + m].sigma = used[m]

C6_Witness ==
    /\ \E k \in CallIds :
          /\ calls[k].fn = "LM"
          /\ calls[k].args[1].t = "str"
          /\ calls[k].args[1].v = "smal"
          /\ Returned(k).items[37].sigma = Sqrt2
    /\ \E k \in CallIds :
          /\ calls[k].fn = "LM"
          /\ calls[k].args[1].t # "str"

\* C7: at every index 0..47 the scale that builds the kernel of LM('small')
\* differs from the scale that builds the kernel of a large bank (the large
\* scale is sqrt 2 times the small one), while kind and orientation agree.
C7_SmallAndLargeDiffer ==
    \A p \in CallIds, q \in CallIds :
        (/\ calls[p].fn = "LM" /\ IsSmall(calls[p].args[1])
         /\ calls[q].fn = "LM" /\ ~IsSmall(calls[q].args[1]))
        => LET sm == Returned(p).items
               lg == Returned(q).items
           IN  /\ Len(sm) = 48
               /\ Len(lg) = 48
               /\ \A n \in 1..48 :
                     /\ KernelScale(sm[n]) # KernelScale(lg[n])
                     /\ KernelScale(lg[n]) = SurdMul(Sqrt2, KernelScale(sm[n]))
                     /\ sm[n] # lg[n]
                     /\ KernelKind(sm[n]) = KernelKind(lg[n])
                     /\ KernelAngle(sm[n]) = KernelAngle(lg[n])
                     /\ sm[n].op = lg[n].op

C7_Witness ==
    \E p \in CallIds, q \in CallIds :
        /\ calls[p].fn = "LM" /\ IsSmall(calls[p].args[1])
        /\ calls[q].fn = "LM" /\ calls[q].args[1].t = "str"
        /\ calls[q].args[1].v = "large"
        /\ p < q

\* the call fn(args) on an instance whose heap is h
Invoke(h, fn, args) ==
    CASE fn = "gaussian_filter" ->
            Evaluated(h, Return(gaussian_filter(args[1], args[2], args[3], args[4])))
      [] fn = "derivative_gaussian_filter" ->
            Evaluated(h, derivative_gaussian_filter(args[1], args[2], args[3],
                                                    args[4], args[5]))
      [] fn = "dog_filter_bank" -> dog_filter_bank(h)
      [] fn = "LM" -> LM(h, args[1])
      [] fn = "gabor" -> gabor(h, args[1], args[2], args[3], args[4])

\* what a call returned: the object its reference names, or the value itself
ResultObject(h, outcome) ==
    IF outcome.value.t = "ref" THEN h[outcome.value.v] ELSE outcome.value

\* every call made so far returned what the same call returns when it is the
\* first call on a fresh instance, and the instance has no attribute
C8_SameAsFresh ==
    /\ self_dict = [name \in {} |-> PyNone]
    /\ \A k \in CallIds :
          LET fresh == Invoke(<<>>, calls[k].fn, calls[k].args)
          IN  /\ calls[k].outcome.kind = fresh.outcome.kind
              /\ calls[k].outcome.value.t = fresh.outcome.value.t
              /\ ResultObject(heap, calls[k].outcome) =
                     ResultObject(fresh.heap, fresh.outcome)

\* a step changes no result of an earlier call
C8_EarlierResultsKept ==
    \A k \in CallIds :
        /\ k <= Len(calls')
        /\ calls'[k] = calls[k]
        /\ calls[k].outcome.value.t = "ref" => calls[k].outcome.value.v <= Len(heap')
        /\ ResultObject(heap', calls[k].outcome) = ResultObject(heap, calls[k].outcome)

\* C8: FilterBank holds no persistent state: after any sequence of calls a call
\* returns what the same call returns first on a fresh instance, and no call
\* changes a bank returned by an earlier call.
C8_Stateless == [](C8_SameAsFresh) /\ [][C8_EarlierResultsKept]_vars

C8_Witness ==
    /\ Len(calls) = 2
    /\ calls[1].fn \in {"dog_filter_bank", "LM", "gabor"}
    /\ calls[2].fn = calls[1].fn
    /\ calls[2].args = calls[1].args
    /\ calls[2].outcome.value # calls[1].outcome.value
    /\ Len(Returned(1).items) > 0

\* C9: on a builder's grid (odd size N, symmetric about 0, 0 at index N//2) the
\* Gaussian kernel is symmetric under point reflection: for every sigma,
\* elongation and elongate flag the value at (r, c) equals the value at
\* (N-1-r, N-1-c).
C9_GaussianPointSymmetric ==
    \A k \in CallIds : calls[k].fn = "gaussian_filter" =>
        LET a == Returned(k)
            N == GridRows(a.grid)
        IN  /\ N % 2 = 1
            /\ GridCols(a.grid) = N
            /\ a.grid.xs[(N \div 2) + 1] = 0
            /\ a.grid.ys[(N \div 2) + 1] = 0
            /\ \A r \in 0..(N - 1), c \in 0..(N - 1) :
                  ArrayAt(a, r + 1, c + 1) = ArrayAt(a, (N - 1 - r) + 1, (N - 1 - c) + 1)

C9_Witness ==
    \E k \in CallIds :
        /\ calls[k].fn = "gaussian_filter"
        /\ GridRows(calls[k].args[1]) = 7
        /\ calls[k].args[2] = Sqrt2
        /\ calls[k].args[3] = 3
        /\ calls[k].args[4].v = "yes"
        /\ ArrayAt(Returned(k), 1, 2) # ArrayAt(Returned(k), 2, 1)

\* C10 as stated: the DoG montage of main shows every filter of the bank: over
\* the 2 x 16 cells the index shown takes every value in 0..31 exactly once, and
\* cell (r, c) shows the filter of scale r and orientation c.
C10_DoGMontageShowsAll ==
    \A s \in 1..Len(saved) : saved[s].name = "DoG1.png" =>
        LET cells == saved[s].cells
            DOG_filters == Returned(1).items
        IN  /\ DOMAIN cells = (0..1) \X (0..15)
            /\ \A n \in 0..31 :
                  Cardinality({c \in DOMAIN cells : cells[c].index = n}) = 1
            /\ \A r \in 0..1, c \in 0..15 :
                  /\ cells[<<r, c>>].index = 16 * r + c
                  /\ cells[<<r, c>>].img = DOG_filters[16 * r + c + 1]

====
